---- MODULE Spec2Model ----
(***************************************************************************)
(* Model of the ST-Link USB transport (src/lib/usb_interface.rs):          *)
(* device discovery against the PID catalog, the session life cycle        *)
(* (open / close) and the framed bulk transfers (read / write / read_swv). *)
(*                                                                         *)
(* The libusb calls the code makes are the environment: the result of      *)
(* each call is drawn from the results the libusb API can return.          *)
(***************************************************************************)
EXTENDS Integers, Sequences, FiniteSets, TLC

VARIABLES
    pid,            \* product id in the descriptor of the plugged device
    config,         \* its active configuration: interfaces -> alt settings -> endpoint addresses
    device_handle,  \* per session: STLinkUSBDevice.device_handle ("None" / "Some")
    claimed,        \* per session: the handle held in device_handle has interface 0 claimed
    lifecycle,      \* per session: what its last open / successful close returned
    last,           \* the last call made on a session, its result and its bulk transfers
    devices,        \* discovery: the devices the USB context enumerates
    found,          \* discovery: result of the last get_all_plugged_devices call
    prev,           \* discovery: result of the call before the last one
    probe,          \* debug probe contract: state of the probe
    probe_call,     \* debug probe contract: the last call and its result
    idreg,          \* identification decoder: the 32-bit register value read
    target_info,    \* identification decoder: what the CLI made of idreg
    cli,            \* CLI: the last run of show_info_of_device / reset_target_of_device
    flush           \* flush_rx: position of the drain loop, stale data left in the probe

vars == <<pid, config, device_handle, claimed, lifecycle, last, devices, found, prev,
          probe, probe_call, idreg, target_info, cli, flush>>

sessionVars == <<pid, config, device_handle, claimed, lifecycle, last>>
discoveryVars == <<devices, found, prev>>
probeVars == <<probe, probe_call>>
decoderVars == <<idreg, target_info>>
cliVars == <<cli>>
flushVars == <<flush>>

\* the parts of the program a specification does not exercise stay idle
ProbeIdle == probe = [state |-> "Closed", protocol |-> "None"] /\ probe_call = [op |-> "none"]
DecoderIdle == idreg = [hi |-> 0, lo |-> 0] /\ target_info = [fields |-> <<>>]
CliIdle == cli = [op |-> "none"]
FlushIdle == flush = [pc |-> "idle"]

----------------------------------------------------------------------------
(* Bounds of the model. *)

\* longest command buffer handed to write (one more than CMD_LEN is needed)
MaxCmdLen == 17
\* longest write_data / read_data buffer handed to write
MaxData == 1
\* largest size handed to read / read_swv
MaxSize == 2
\* longest enumerated device list
MaxDevices == 3

----------------------------------------------------------------------------
(* Program constants. *)

\* The USB Command packet size.
CMD_LEN == 16

\* The USB VendorID (0x0483).
USB_VID == 1155

\* size of the drain read issued by open
DRAIN_SIZE == 1000

STLinkInfo(version_name, usb_pid, ep_out, ep_in, ep_swv) ==
    [version_name |-> version_name, usb_pid |-> usb_pid,
     ep_out |-> ep_out, ep_in |-> ep_in, ep_swv |-> ep_swv]

\* Map of USB PID to firmware version name and device endpoints.
\* 0x3748, 0x374b, 0x374a, 0x3742, 0x374e, 0x374f, 0x3753;
\* endpoints 0x01 / 0x02 (out), 0x81 (in), 0x82 / 0x83 (swv).
USB_PID_EP_MAP ==
       (14152 :> STLinkInfo("V2",   14152, 2, 129, 131))
    @@ (14155 :> STLinkInfo("V2-1", 14155, 1, 129, 130))
    @@ (14154 :> STLinkInfo("V2-1", 14154, 1, 129, 130))
    @@ (14146 :> STLinkInfo("V2-1", 14146, 1, 129, 130))
    @@ (14158 :> STLinkInfo("V3",   14158, 1, 129, 130))
    @@ (14159 :> STLinkInfo("V3",   14159, 1, 129, 130))
    @@ (14163 :> STLinkInfo("V3",   14163, 1, 129, 130))

----------------------------------------------------------------------------
(* Results. *)

\* two sessions on the same device; the transfers are issued on the first,
\* the second one only opens and closes
Sessions == {1, 2}
TransferSessions == {1}

Ok(v)  == [status |-> "Ok",  err |-> "None", value |-> v]
Err(e) == [status |-> "Err", err |-> e,      value |-> <<>>]
\* the call did not return: the thread panicked / the process aborted
Panic  == [status |-> "Panic", err |-> "None", value |-> <<>>]
Abort  == [status |-> "Abort", err |-> "None", value |-> <<>>]

\* outcome of one libusb bulk transfer: Ok(n) with n bytes moved, or Err(e)
BulkOk(n)  == [ok |-> TRUE,  n |-> n, err |-> "None"]
BulkErr(e) == [ok |-> FALSE, n |-> 0, err |-> e]

BulkErrors == {"Timeout", "Io"}

\* the transferred lengths the model tries for a buffer of length len
BulkLens(len) == {n \in {0, len - 1, len} : n >= 0}

BulkOutcomes(len) ==
    {BulkOk(n) : n \in BulkLens(len)} \cup {BulkErr(e) : e \in BulkErrors}

\* one bulk transfer as the code issued it
Xfer(phase, ep, data, len, res) ==
    [phase |-> phase, ep |-> ep, data |-> data, len |-> len, res |-> res]

Zeros(n) == [i \in 1..n |-> 0]

\* k bytes as the probe delivers them (0xAA each)
Received(k) == [i \in 1..k |-> 170]

----------------------------------------------------------------------------
(* The device under the sessions. *)

\* product ids of the plugged device the session model tries: one per endpoint layout
ModelPids == {14152, 14155}

\* active configurations the plugged device may report for the catalog entry info:
\* the advertised layout, each endpoint missing in turn, the endpoints in another
\* order, no interface, an interface without descriptors, and the endpoints
\* only on a second interface
Configs(info) ==
    { << << <<info.ep_out, info.ep_in, info.ep_swv>> >> >>,
      << << <<info.ep_swv, info.ep_in, info.ep_out>> >> >>,
      << << <<info.ep_in, info.ep_swv>> >> >>,
      << << <<info.ep_out, info.ep_swv>> >> >>,
      << << <<info.ep_out, info.ep_in>> >> >>,
      << >>,
      << << >> >>,
      << << <<>> >>, << <<info.ep_out, info.ep_in, info.ep_swv>> >> >> }

\* config.interfaces().next() / interface.descriptors().next() /
\* descriptor.endpoint_descriptors(): the endpoint addresses open looks at
EndpointAddresses(cfg) ==
    IF cfg = <<>> THEN <<>>
    ELSE IF cfg[1] = <<>> THEN <<>>
    ELSE cfg[1][1]

\* the if / else-if chain of the scan: each endpoint descriptor sets at most one
\* of the three options
EndpointOut(eps, info) ==
    \E i \in 1..Len(eps) : eps[i] = info.ep_out
EndpointIn(eps, info) ==
    \E i \in 1..Len(eps) : eps[i] # info.ep_out /\ eps[i] = info.ep_in
EndpointSwv(eps, info) ==
    \E i \in 1..Len(eps) :
        eps[i] # info.ep_out /\ eps[i] # info.ep_in /\ eps[i] = info.ep_swv

----------------------------------------------------------------------------
(* read *)

\* read(size, timeout): the buffer is zero-filled, the bulk read is issued only
\* through device_handle.as_mut().map(..) and its result is dropped; the
\* function returns Ok(buf) in every case.
ReadXfers(h, info, size, o) ==
    IF h = "Some" THEN <<Xfer("read", info.ep_in, <<>>, size, o)>> ELSE <<>>

ReadBuf(h, size, o) ==
    IF h = "Some" /\ o.ok THEN Received(o.n) \o Zeros(size - o.n) ELSE Zeros(size)

Read(h, info, size, o) ==
    [ret |-> Ok(ReadBuf(h, size, o)), xfers |-> ReadXfers(h, info, size, o)]

----------------------------------------------------------------------------
(* write *)

\* Pad with the loop bound off by one.
PadOneShort(cmd) == cmd \o Zeros(CMD_LEN - Len(cmd) - 1)

\* for _ in 0..(CMD_LEN - cmd.len()) { cmd.push(0); }   (cmd.len() <= CMD_LEN)
Pad(cmd) == cmd \o Zeros(CMD_LEN - Len(cmd))

\* CMD_LEN - cmd.len() on usize with cmd.len() > CMD_LEN: a build with overflow
\* checks panics on the subtraction; a build without them wraps to a count
\* above 2^63, and pushing that many bytes ends in the allocator aborting.
\* Neither reaches the first transfer.
PadOverflow(build) == IF build = "debug" THEN Panic ELSE Abort

\* LengthMismatch that lets a short transfer pass.
LengthMismatchLax(actual, expected) == actual > expected

\* written_bytes != CMD_LEN, written_bytes != write_data.len(),
\* read_bytes != read_data.len()
LengthMismatch(actual, expected) == actual # expected

\* Data in phase that reads even into an empty buffer.
DataInPhaseAlways(info, read_len, o3, sofar) ==
    LET x == Xfer("data_in", info.ep_in, <<>>, read_len, o3)
    IN  IF ~o3.ok THEN [ret |-> Err(o3.err), xfers |-> Append(sofar, x)]
        ELSE IF o3.n # read_len
             THEN [ret |-> Err("Io"), xfers |-> Append(sofar, x)]
             ELSE [ret |-> Ok(<<>>), xfers |-> Append(sofar, x)]

\* Optional data in phase.
DataInPhase(info, read_len, o3, sofar) ==
    IF read_len > 0
    THEN LET x == Xfer("data_in", info.ep_in, <<>>, read_len, o3)
         IN  IF ~o3.ok THEN [ret |-> Err(o3.err), xfers |-> Append(sofar, x)]
             ELSE IF LengthMismatch(o3.n, read_len)
                  THEN [ret |-> Err("Io"), xfers |-> Append(sofar, x)]
                  ELSE [ret |-> Ok(<<>>), xfers |-> Append(sofar, x)]
    ELSE [ret |-> Ok(<<>>), xfers |-> sofar]

\* Optional data out phase.
DataOutPhase(info, write_data, read_len, o2, o3, sofar) ==
    IF Len(write_data) > 0
    THEN LET x == Xfer("data_out", info.ep_out, write_data, Len(write_data), o2)
         IN  IF ~o2.ok THEN [ret |-> Err(o2.err), xfers |-> Append(sofar, x)]
             ELSE IF LengthMismatch(o2.n, Len(write_data))
                  THEN [ret |-> Err("Io"), xfers |-> Append(sofar, x)]
                  ELSE DataInPhase(info, read_len, o3, Append(sofar, x))
    ELSE DataInPhase(info, read_len, o3, sofar)

\* Command phase, then the two optional phases.
Write(h, info, cmd, write_data, read_len, build, o1, o2, o3) ==
    IF Len(cmd) > CMD_LEN THEN [ret |-> PadOverflow(build), xfers |-> <<>>]
    ELSE IF h = "None" THEN [ret |-> Panic, xfers |-> <<>>]   \* .unwrap() on None
    ELSE LET frame == Pad(cmd)
             x == Xfer("cmd", info.ep_out, frame, Len(frame), o1)
         IN  IF ~o1.ok THEN [ret |-> Err(o1.err), xfers |-> <<x>>]
             ELSE IF LengthMismatch(o1.n, CMD_LEN)
                  THEN [ret |-> Err("Io"), xfers |-> <<x>>]
                  ELSE DataOutPhase(info, write_data, read_len, o2, o3, <<x>>)

----------------------------------------------------------------------------
(* read_swv *)

\* Vec::with_capacity(size) has length 0: the slice handed to read_bulk is empty
SwvBufLen(size) == 0

ReadSwv(h, info, size, o) ==
    IF h = "None" THEN [ret |-> Panic, xfers |-> <<>>]        \* .unwrap() on None
    ELSE LET x == Xfer("swv", info.ep_swv, <<>>, SwvBufLen(size), o)
         IN  IF ~o.ok THEN [ret |-> Err(o.err), xfers |-> <<x>>]
             ELSE IF o.n # size THEN [ret |-> Err("Io"), xfers |-> <<x>>]
             ELSE [ret |-> Ok(<<>>), xfers |-> <<x>>]         \* buf still has length 0

----------------------------------------------------------------------------
(* open / close *)

\* libusb: claim_interface(0) on a fresh handle succeeds unless another handle
\* holds the interface
InterfaceFree(s, cl) == \A t \in Sessions \ {s} : ~cl[t]

\* self.device_handle.as_mut().map(|ref mut dh| dh.claim_interface(0));
\* the Result of claim_interface is dropped with the Option that wraps it.
\* The handle replaced by the assignment on the line before is dropped first,
\* which releases what it had claimed.
ClaimInterface(s, cl) == [cl EXCEPT ![s] = InterfaceFree(s, cl)]

\* what open does once device.open() has returned the new handle
OpenWithHandle(s, info, cfg, cl, oCfg, oDesc, oDrain) ==
    LET cl2 == ClaimInterface(s, cl)
        eps == EndpointAddresses(cfg)
        r   == Read("Some", info, DRAIN_SIZE, oDrain)
        stop(e) == [ret |-> Err(e), handle |-> "Some", claimed |-> cl2, xfers |-> <<>>]
    IN  IF oCfg # "Ok" THEN stop(oCfg)                \* active_config_descriptor()?
        ELSE IF oDesc # "Ok" THEN stop(oDesc)         \* device_descriptor()?
        ELSE IF ~EndpointOut(eps, info) THEN stop("NotFound")
        ELSE IF ~EndpointIn(eps, info) THEN stop("NotFound")
        ELSE IF ~EndpointSwv(eps, info) THEN stop("NotFound")
        ELSE IF r.ret.status # "Ok"                   \* self.read(1000, 10ms)?
             THEN [ret |-> r.ret, handle |-> "Some", claimed |-> cl2, xfers |-> r.xfers]
             ELSE [ret |-> Ok(<<>>), handle |-> "Some", claimed |-> cl2, xfers |-> r.xfers]

Open(s, h, info, cfg, cl, oDev, oCfg, oDesc, oDrain) ==
    IF oDev # "Ok"                                    \* self.device.open()?
    THEN [ret |-> Err(oDev), handle |-> h, claimed |-> cl, xfers |-> <<>>]
    ELSE OpenWithHandle(s, info, cfg, cl, oCfg, oDesc, oDrain)

\* libusb: release_interface(0) on a handle that has not claimed it is NotFound
ReleaseInterface(isClaimed, oRel) ==
    IF ~isClaimed THEN "NotFound" ELSE oRel

\* Close that treats a session without a handle as already closed.
CloseIdempotent(s, h, cl, oRel) ==
    LET rel == IF h = "None" THEN "Ok" ELSE ReleaseInterface(cl[s], oRel)
    IN  IF rel # "Ok"
        THEN [ret |-> Err(rel), handle |-> h, claimed |-> cl]
        ELSE [ret |-> Ok(<<>>), handle |-> "None", claimed |-> [cl EXCEPT ![s] = FALSE]]

Close(s, h, cl, oRel) ==
    LET rel == IF h = "None" THEN "NotFound" ELSE ReleaseInterface(cl[s], oRel)
    IN  IF rel # "Ok"
        THEN [ret |-> Err(rel), handle |-> h, claimed |-> cl]
        ELSE [ret |-> Ok(<<>>), handle |-> "None", claimed |-> [cl EXCEPT ![s] = FALSE]]

----------------------------------------------------------------------------
(* Inputs of the calls. *)

\* command buffers: every length up to MaxCmdLen; zero bytes at every third
\* place, 200 + i elsewhere
CmdBuf(n) == [i \in 1..n |-> IF i % 3 = 0 THEN 0 ELSE 200 + i]
CmdBufs == {CmdBuf(n) : n \in 0..MaxCmdLen}

WriteData(n) == [i \in 1..n |-> 85]

\* the (command, write_data, len(read_data)) triples handed to write: every
\* command buffer without data phases, and a two-byte command with every
\* combination of data phases
WriteArgs ==
    {<<cmd, <<>>, 0>> : cmd \in CmdBufs}
    \cup {<<CmdBuf(2), WriteData(n), m>> : n \in 0..MaxData, m \in 0..MaxData}

Sizes == 0..MaxSize

\* the build decides only what the overflowing subtraction does
Builds(cmd) == IF Len(cmd) > CMD_LEN THEN {"debug", "release"} ELSE {"debug"}

\* the outcomes the probe can give a phase: none when the phase is not reached
\* (the phase before it did not move its whole buffer) or has an empty buffer
NoXfer == BulkOk(0)
Complete(o, len) == o.ok /\ o.n = len
PhaseOutcomes(reached, len) ==
    IF reached /\ len > 0 THEN BulkOutcomes(len) ELSE {NoXfer}

\* the libusb call of open that fails, if one does: device.open(),
\* active_config_descriptor() or device_descriptor()
OpenFaults == {"none", "open", "config", "descriptor"}

Call(op, s, r, cmd, write_data, read_len, size) ==
    [op |-> op, s |-> s, status |-> r.ret.status, err |-> r.ret.err,
     value |-> r.ret.value, cmd |-> cmd, write_data |-> write_data,
     read_len |-> read_len, size |-> size, xfers |-> r.xfers]

NoCall ==
    [op |-> "none", s |-> 0, status |-> "Ok", err |-> "None", value |-> <<>>,
     cmd |-> <<>>, write_data |-> <<>>, read_len |-> 0, size |-> 0, xfers |-> <<>>]

\* STLinkUSBDevice.info, set by new from the catalog
Info == USB_PID_EP_MAP[pid]

\* what the caller has seen of a session: "New" until its first open, then
\* "Open" after an open that returned Ok, "OpenFailed" after one that returned
\* Err, "Closed" after a close that returned Ok (a failed close changes nothing)
AfterOpen(ret) == IF ret.status = "Ok" THEN "Open" ELSE "OpenFailed"
AfterClose(before, ret) == IF ret.status = "Ok" THEN "Closed" ELSE before

\* a panic or an abort ends the program
Running == last.status \notin {"Panic", "Abort"}

----------------------------------------------------------------------------
(* Discovery: get_all_plugged_devices over the devices the context lists. *)

\* the (vendor id, product id) pairs of the enumerated devices: two catalog
\* probes, the probe vendor with an unknown product, a catalog product id
\* under another vendor
DeviceKinds ==
    { [vid |-> USB_VID, pid |-> 14152], [vid |-> USB_VID, pid |-> 14155],
      [vid |-> USB_VID, pid |-> 22336], [vid |-> 1240, pid |-> 14152] }

RECURSIVE SeqsUpTo(_, _)
SeqsUpTo(S, n) ==
    IF n = 0 THEN {<<>>}
    ELSE LET shorter == SeqsUpTo(S, n - 1)
         IN  shorter \cup {Append(q, x) : q \in {r \in shorter : Len(r) = n - 1}, x \in S}

DeviceLists == SeqsUpTo(DeviceKinds, MaxDevices)

\* usb_match without the catalog lookup.
usb_match_vid_only(device, readable) ==
    IF readable THEN device.vid = USB_VID ELSE FALSE

\* Check the VID/PID; a descriptor that cannot be read does not match.
usb_match(device, readable) ==
    IF readable
    THEN device.vid = USB_VID /\ device.pid \in DOMAIN USB_PID_EP_MAP
    ELSE FALSE

\* STLinkUSBDevice::new: device_descriptor()?, then the catalog entry of the
\* product id (indexing the map with a key it does not hold panics)
New(device, readable) ==
    IF ~readable THEN Err("Other")
    ELSE IF device.pid \notin DOMAIN USB_PID_EP_MAP THEN Panic
    ELSE Ok([device |-> device, device_handle |-> "None",
             info |-> USB_PID_EP_MAP[device.pid]])

\* devices.iter().filter(usb_match).map(new).collect::<Result<Vec<_>, Error>>():
\* one device at a time, stopping at the first Err
RECURSIVE Collect(_, _, _, _)
Collect(devs, i, rd, acc) ==
    IF i > Len(devs) THEN Ok(acc)
    ELSE IF ~usb_match(devs[i], rd[i].match) THEN Collect(devs, i + 1, rd, acc)
    ELSE LET r == New(devs[i], rd[i].new)
         IN  IF r.status # "Ok" THEN r
             ELSE Collect(devs, i + 1, rd, Append(acc, r.value))

get_all_plugged_devices(devs, ctxOk, rd) ==
    IF ~ctxOk THEN Err("Io")                          \* context.devices()?
    ELSE Collect(devs, 1, rd, <<>>)

\* which reads of the device descriptor succeed in one call: all of them, or
\* all but those of one device, whose read fails in usb_match, in new, or in both
AllReadable(n) == [i \in 1..n |-> [match |-> TRUE, new |-> TRUE]]
Readability(n) ==
    {AllReadable(n)} \cup
    { [AllReadable(n) EXCEPT ![i] = [match |-> m, new |-> w]] :
        i \in 1..n, m \in BOOLEAN, w \in BOOLEAN }

Discovery(r, ctxOk, rd) ==
    [status |-> r.status, err |-> r.err, value |-> r.value,
     ctxOk |-> ctxOk, rd |-> rd]

NoDiscovery == Discovery(Ok(<<>>), FALSE, <<>>)

InitDiscovery ==
    /\ pid = 14152
    /\ config = <<>>
    /\ device_handle = [s \in Sessions |-> "None"]
    /\ claimed = [s \in Sessions |-> FALSE]
    /\ lifecycle = [s \in Sessions |-> "New"]
    /\ last = NoCall
    /\ devices \in DeviceLists
    /\ found = NoDiscovery
    /\ prev = NoDiscovery
    /\ ProbeIdle /\ DecoderIdle /\ CliIdle /\ FlushIdle

GetAllPluggedDevicesStep ==
    /\ found.status # "Panic"
    /\ \E ctxOk \in BOOLEAN :
       \E rd \in (IF ctxOk THEN Readability(Len(devices)) ELSE {AllReadable(Len(devices))}) :
          /\ found' = Discovery(get_all_plugged_devices(devices, ctxOk, rd), ctxOk, rd)
          /\ prev' = found
    /\ UNCHANGED <<devices, sessionVars, probeVars, decoderVars, cliVars, flushVars>>

NextDiscovery == GetAllPluggedDevicesStep

SpecDiscovery == InitDiscovery /\ [][NextDiscovery]_vars

----------------------------------------------------------------------------
(* The sessions: two STLinkUSBDevice values made by new for the same device. *)

Init ==
    /\ pid \in ModelPids
    /\ config \in Configs(USB_PID_EP_MAP[pid])
    /\ device_handle = [s \in Sessions |-> "None"]
    /\ claimed = [s \in Sessions |-> FALSE]
    /\ lifecycle = [s \in Sessions |-> "New"]
    /\ last = NoCall
    /\ devices = <<>>
    /\ found = NoDiscovery
    /\ prev = NoDiscovery
    /\ ProbeIdle /\ DecoderIdle /\ CliIdle /\ FlushIdle

OpenStep ==
    /\ Running
    /\ \E s \in Sessions, f \in OpenFaults :
          \E oDrain \in PhaseOutcomes(f = "none", DRAIN_SIZE) :
          LET r == Open(s, device_handle[s], Info, config, claimed,
                        IF f = "open" THEN "Access" ELSE "Ok",
                        IF f = "config" THEN "NoDevice" ELSE "Ok",
                        IF f = "descriptor" THEN "Other" ELSE "Ok", oDrain)
          IN  /\ device_handle' = [device_handle EXCEPT ![s] = r.handle]
              /\ claimed' = r.claimed
              /\ lifecycle' = [lifecycle EXCEPT ![s] = AfterOpen(r.ret)]
              /\ last' = Call("open", s, r, <<>>, <<>>, 0, 0)
    /\ UNCHANGED <<pid, config, discoveryVars, probeVars, decoderVars, cliVars, flushVars>>

CloseStep ==
    /\ Running
    /\ \E s \in Sessions, oRel \in {"Ok", "NoDevice"} :
          LET r == Close(s, device_handle[s], claimed, oRel)
          IN  /\ device_handle' = [device_handle EXCEPT ![s] = r.handle]
              /\ claimed' = r.claimed
              /\ lifecycle' = [lifecycle EXCEPT ![s] = AfterClose(lifecycle[s], r.ret)]
              /\ last' = Call("close", s, [ret |-> r.ret, xfers |-> <<>>], <<>>, <<>>, 0, 0)
    /\ UNCHANGED <<pid, config, discoveryVars, probeVars, decoderVars, cliVars, flushVars>>

ReadStep ==
    /\ Running
    /\ \E s \in TransferSessions, size \in Sizes :
          \E o \in BulkOutcomes(size) :
             last' = Call("read", s, Read(device_handle[s], Info, size, o),
                          <<>>, <<>>, 0, size)
    /\ UNCHANGED <<pid, config, device_handle, claimed, lifecycle, discoveryVars, probeVars, decoderVars, cliVars, flushVars>>

WriteStep ==
    /\ Running
    /\ \E s \in TransferSessions, a \in WriteArgs :
          \E build \in Builds(a[1]), o1 \in BulkOutcomes(CMD_LEN) :
          \E o2 \in PhaseOutcomes(Complete(o1, CMD_LEN), Len(a[2])) :
          \E o3 \in PhaseOutcomes(Complete(o1, CMD_LEN) /\ Complete(o2, Len(a[2])), a[3]) :
             last' = Call("write", s,
                          Write(device_handle[s], Info, a[1], a[2], a[3],
                                build, o1, o2, o3),
                          a[1], a[2], a[3], 0)
    /\ UNCHANGED <<pid, config, device_handle, claimed, lifecycle, discoveryVars, probeVars, decoderVars, cliVars, flushVars>>

ReadSwvStep ==
    /\ Running
    /\ \E s \in TransferSessions, size \in Sizes :
          \E o \in BulkOutcomes(SwvBufLen(size)) :
             last' = Call("read_swv", s, ReadSwv(device_handle[s], Info, size, o),
                          <<>>, <<>>, 0, size)
    /\ UNCHANGED <<pid, config, device_handle, claimed, lifecycle, discoveryVars, probeVars, decoderVars, cliVars, flushVars>>

Next == OpenStep \/ CloseStep \/ ReadStep \/ WriteStep \/ ReadSwvStep

Spec == Init /\ [][Next]_vars

----------------------------------------------------------------------------
(* Properties of write. *)

WriteOnOpenSession == last.op = "write" /\ lifecycle[last.s] = "Open"

\* C1: a command of N <= 16 bytes written on an open session goes out on the
\* command-out endpoint as a 16-byte frame: the N command bytes, then zeros.
C1_FramePadded ==
    (WriteOnOpenSession /\ Len(last.cmd) <= CMD_LEN) =>
        /\ Len(last.xfers) >= 1
        /\ last.xfers[1].phase = "cmd"
        /\ last.xfers[1].ep = Info.ep_out
        /\ Len(last.xfers[1].data) = 16
        /\ \A i \in 1..16 :
              last.xfers[1].data[i] = IF i <= Len(last.cmd) THEN last.cmd[i] ELSE 0
        /\ \A i \in 2..Len(last.xfers) : last.xfers[i].phase # "cmd"

C1_Witness ==
    /\ WriteOnOpenSession
    /\ Len(last.cmd) = 5
    /\ last.status = "Ok"
    /\ Len(last.xfers) = 1

\* C2: a command of more than 16 bytes makes write return an error, with no
\* bulk transfer attempted.
C2_OverlongRejected ==
    (WriteOnOpenSession /\ Len(last.cmd) > CMD_LEN) =>
        (last.status = "Err" /\ last.xfers = <<>>)

ExpectedLen(phase) ==
    CASE phase = "cmd" -> 16
      [] phase = "data_out" -> Len(last.write_data)
      [] phase = "data_in" -> last.read_len

ShortTransfer(x) == x.res.ok /\ x.res.n # ExpectedLen(x.phase)

\* C3: in each phase of write, a transfer whose actual length differs from
\* the expected one (16, len(write_data), len(read_data)) makes write return
\* the I/O error, and it is the last transfer of the call.
C3_ShortTransferStops ==
    last.op = "write" =>
        \A i \in 1..Len(last.xfers) :
            /\ last.xfers[i].len = ExpectedLen(last.xfers[i].phase)
            /\ ShortTransfer(last.xfers[i]) =>
                  (i = Len(last.xfers) /\ last.status = "Err" /\ last.err = "Io")

C3_Witness ==
    /\ WriteOnOpenSession
    /\ last.read_len > 0
    /\ Len(last.xfers) = 2
    /\ last.xfers[2].phase = "data_out"
    /\ ShortTransfer(last.xfers[2])
    /\ last.err = "Io"

----------------------------------------------------------------------------
(* Properties of the session life cycle. *)

TransferOps == {"read", "write", "read_swv"}

NotOpen(s) == lifecycle[s] \in {"New", "Closed"}

\* C4: on a session that was never opened, or was closed successfully, read,
\* write and read_swv each return an error.
C4_ClosedTransfersFail ==
    (last.op \in TransferOps /\ NotOpen(last.s)) => last.status = "Err"

\* C5: close on a session that was never opened, or was closed successfully,
\* returns an error and changes nothing of the session, and a close that
\* follows a successful close of the same session does not succeed.
C5_CloseOnClosedFails ==
    [][ /\ (last'.op = "close" /\ NotOpen(last'.s)) =>
              /\ last'.status = "Err"
              /\ device_handle' = device_handle
              /\ claimed' = claimed
              /\ lifecycle' = lifecycle
        /\ (last.op = "close" /\ last.status = "Ok"
              /\ last'.op = "close" /\ last'.s = last.s) =>
              last'.status = "Err" ]_vars

C5_Witness ==
    /\ last.op = "close"
    /\ last.status = "Err"
    /\ last.err = "NotFound"
    /\ lifecycle[last.s] = "Closed"

Range(q) == {q[i] : i \in 1..Len(q)}

\* an endpoint address of the catalog entry is on no endpoint descriptor of
\* the device
LacksEndpoint ==
    \E e \in {Info.ep_out, Info.ep_in, Info.ep_swv} :
        \A i \in 1..Len(config) : \A j \in 1..Len(config[i]) :
            e \notin Range(config[i][j])

\* C6: open on a device that lacks a catalog endpoint (the device opened, its
\* descriptors read) returns NotFound and leaves the session without a
\* handle and without a claimed interface.
C6_MissingEndpointLeavesClosed ==
    (last.op = "open" /\ LacksEndpoint
        /\ last.err \notin {"Access", "NoDevice", "Other"}) =>
        /\ last.status = "Err"
        /\ last.err = "NotFound"
        /\ device_handle[last.s] = "None"
        /\ ~claimed[last.s]

\* C7: open while interface 0 of the device is claimed by a session whose
\* open succeeded (this session or the other one) returns an error.
C7_OpenOnClaimedFails ==
    [][ (last'.op = "open"
            /\ \E t \in Sessions : claimed[t] /\ lifecycle[t] = "Open") =>
            last'.status = "Err" ]_vars

\* C10: read returns the Timeout error when its bulk read times out, and
\* exactly the k received bytes when the bulk read receives k bytes.
C10_ReadReportsTransfer ==
    (last.op = "read" /\ lifecycle[last.s] = "Open" /\ Len(last.xfers) = 1) =>
        /\ last.xfers[1].res = BulkErr("Timeout") =>
              (last.status = "Err" /\ last.err = "Timeout")
        /\ last.xfers[1].res.ok =>
              (last.status = "Ok" /\ last.value = Received(last.xfers[1].res.n))

----------------------------------------------------------------------------
(* Properties of discovery. *)

IsCall(d) == d.ctxOk

Candidate(device) ==
    [device |-> device, device_handle |-> "None", info |-> USB_PID_EP_MAP[device.pid]]

CatalogPids == {14152, 14155, 14154, 14146, 14158, 14159, 14163}

\* the probes among devs: vendor id 0x0483 and a product id of the catalog
Probes(devs) ==
    LET isProbe(d) == d.vid = 1155 /\ d.pid \in CatalogPids
        sel == SelectSeq(devs, isProbe)
    IN  [i \in 1..Len(sel) |-> Candidate(sel[i])]

\* the devices of devs whose descriptor is readable at every read of the call
ReadableDevices(devs, rd) ==
    LET zip == [i \in 1..Len(devs) |-> [device |-> devs[i], rd |-> rd[i]]]
        ok(z) == z.rd.match /\ z.rd.new
        sel == SelectSeq(zip, ok)
    IN  [i \in 1..Len(sel) |-> sel[i].device]

\* C8: a device whose descriptor cannot be read, at either read, is skipped:
\* the call returns Ok with the probes among the other devices.
C8_UnreadableSkipped ==
    IsCall(found) =>
        /\ found.status = "Ok"
        /\ found.value = Probes(ReadableDevices(devices, found.rd))

ReadableCall(d) == IsCall(d) /\ d.rd = AllReadable(Len(devices))

\* C9: with every descriptor readable the call returns, in enumeration order,
\* exactly the devices of vendor 0x0483 with a catalog product id, each with
\* its catalog entry and no handle; two such calls return the same sequence.
C9_ExactlyTheProbes ==
    ReadableCall(found) =>
        /\ found.status = "Ok"
        /\ found.value = Probes(devices)
        /\ ReadableCall(prev) => prev.value = found.value

C9_Witness ==
    /\ ReadableCall(found)
    /\ ReadableCall(prev)
    /\ Len(devices) = 3
    /\ Len(found.value) = 2
    /\ found.value[1].info.usb_pid # found.value[2].info.usb_pid
    /\ found.value[2].device = devices[3]

----------------------------------------------------------------------------
(* Properties of the transfers of write, open and read_swv. *)

\* the phases a call of write with these buffers goes through when every
\* transfer is complete
PhasesOf(write_data, read_len) ==
    <<"cmd">> \o (IF Len(write_data) > 0 THEN <<"data_out">> ELSE <<>>)
              \o (IF read_len > 0 THEN <<"data_in">> ELSE <<>>)

PhaseRank(phase) ==
    CASE phase = "cmd" -> 1 [] phase = "data_out" -> 2 [] phase = "data_in" -> 3

\* C15: a write that returns Ok has made exactly the transfers of its phases,
\* in order: the 16-byte frame on command-out, write_data on command-out iff
\* it is not empty, a read of len(read_data) bytes on response-in iff
\* read_data is not empty. No call of write repeats a phase or uses trace-in.
C15_WriteTransferSequence ==
    last.op = "write" =>
        /\ \A i \in 1..Len(last.xfers) :
              /\ last.xfers[i].ep # Info.ep_swv
              /\ \A j \in 1..Len(last.xfers) :
                    i < j => PhaseRank(last.xfers[i].phase) < PhaseRank(last.xfers[j].phase)
        /\ last.status = "Ok" =>
              LET phases == PhasesOf(last.write_data, last.read_len)
              IN  /\ Len(last.xfers) = Len(phases)
                  /\ \A i \in 1..Len(phases) :
                        LET x == last.xfers[i]
                        IN  /\ x.phase = phases[i]
                            /\ x.res.ok /\ x.res.n = x.len
                            /\ x.phase = "cmd" =>
                                  (x.ep = Info.ep_out /\ x.len = 16)
                            /\ x.phase = "data_out" =>
                                  (x.ep = Info.ep_out /\ x.data = last.write_data)
                            /\ x.phase = "data_in" =>
                                  (x.ep = Info.ep_in /\ x.len = last.read_len)

C15_Witness ==
    /\ last.op = "write"
    /\ lifecycle[last.s] = "Open"
    /\ last.status = "Ok"
    /\ Len(last.xfers) = 3

\* open got as far as its drain read
OpenReachedDrain ==
    /\ last.op = "open"
    /\ last.err \notin {"Access", "NoDevice", "Other", "NotFound"}

\* C16: an open that has confirmed the three endpoints makes exactly one
\* read on response-in; it returns Ok when that read times out and returns
\* the error of the read when the read fails with any other error.
C16_DrainErrorPropagated ==
    OpenReachedDrain =>
        /\ Len(last.xfers) = 1
        /\ last.xfers[1].ep = Info.ep_in
        /\ last.xfers[1].res = BulkErr("Timeout") => last.status = "Ok"
        /\ (~last.xfers[1].res.ok /\ last.xfers[1].res.err # "Timeout") =>
              (last.status = "Err" /\ last.err = last.xfers[1].res.err)

\* C17: after an open that returned Ok the session holds the claim on
\* interface 0 and the three catalog endpoints are among the endpoint
\* descriptors open looked at (stated for the runs in which no open has
\* failed and left its session half open).
C17_OpenOkMeansClaimed ==
    (last.op = "open" /\ last.status = "Ok"
        /\ \A t \in Sessions : lifecycle[t] # "OpenFailed") =>
        /\ claimed[last.s]
        /\ \A e \in {Info.ep_out, Info.ep_in, Info.ep_swv} :
              \E i \in 1..Len(EndpointAddresses(config)) :
                  EndpointAddresses(config)[i] = e

\* C18: read_swv(size) on an open session issues one bulk read for size
\* bytes on trace-in, and returns Ok with the size bytes when the probe
\* delivers them.
C18_ReadSwvReadsSize ==
    (last.op = "read_swv" /\ lifecycle[last.s] = "Open") =>
        /\ Len(last.xfers) = 1
        /\ last.xfers[1].ep = Info.ep_swv
        /\ last.xfers[1].len = last.size
        /\ (last.xfers[1].res.ok /\ last.xfers[1].res.n = last.size) =>
              (last.status = "Ok" /\ last.value = Received(last.size))

----------------------------------------------------------------------------
(* Identification decoder (src/cli/main.rs): parse_target_id and what       *)
(* show_info_of_device makes of the decoded IDCODE register.                *)

\* a u32 as its two 16-bit halves
U32(hi, lo) == [hi |-> hi, lo |-> lo]

\* value >> k for 1 <= k <= 31
Shr(value, k) ==
    IF k >= 16 THEN value.hi \div 2^(k - 16)
    ELSE value.hi * 2^(16 - k) + value.lo \div 2^k

RECURSIVE BitAnd(_, _)
BitAnd(a, b) ==
    IF a = 0 \/ b = 0 THEN 0
    ELSE (a % 2) * (b % 2) + 2 * BitAnd(a \div 2, b \div 2)

\* the casts `as u8` and `as u16` truncate
AsU8(x) == x % 256
AsU16(x) == x % 65536

\* parse_target_id with the designer mask one bit too wide (0x0FFF).
parse_target_id_wide_mask(value) ==
    << AsU8(Shr(value, 28)), AsU16(Shr(value, 12)),
       AsU16(BitAnd(Shr(value, 1), 4095)), AsU8(BitAnd(value.lo, 1)) >>

\* revision | partno | designer | reserved
\* 4 bit    | 16 bit | 11 bit   | 1 bit
\* ((value >> 28) as u8, (value >> 12) as u16,
\*  ((value >> 1) & 0x07FF) as u16, (value & 0x01) as u8)
parse_target_id(value) ==
    << AsU8(Shr(value, 28)), AsU16(Shr(value, 12)),
       AsU16(BitAnd(Shr(value, 1), 2047)), AsU8(BitAnd(value.lo, 1)) >>

\* ProtocolName with the two names exchanged.
ProtocolNameSwapped(info) ==
    IF info[1] = 4 THEN "SW-DP"
    ELSE IF info[1] = 3 THEN "JTAG-DP"
    ELSE "Unknown Protocol"

\* the protocol show_info_of_device prints for the decoded IDCODE
ProtocolName(info) ==
    IF info[1] = 4 THEN "JTAG-DP"
    ELSE IF info[1] = 3 THEN "SW-DP"
    ELSE "Unknown Protocol"

\* ValidateIdcode without the test of the reserved bit.
ValidateIdcodeNoReserved(info) ==
    IF ~(info[1] = 3 \/ info[1] = 4) \/ ~(info[2] = 47616 \/ info[2] = 47618)
    THEN Err("Custom")
    ELSE Ok(<<>>)

\* target_info.3 != 1 || !(.0 == 0x3 || .0 == 0x4) || !(.1 == 0xBA00 || .1 == 0xBA02)
ValidateIdcode(info) ==
    IF info[4] # 1 \/ ~(info[1] = 3 \/ info[1] = 4)
                   \/ ~(info[2] = 47616 \/ info[2] = 47618)
    THEN Err("Custom")
    ELSE Ok(<<>>)

\* the register values the model reads: every revision, with part numbers and
\* designers at the ends of their ranges, around the nibble boundaries and at
\* the ARM values (0xBA00, 0xBA02, 0x23B), with either reserved bit
Revisions == 0..15
Parts == {0, 1, 15, 16, 4095, 32768, 47616, 47618, 61440, 65535}
Designers == {0, 1, 571, 1023, 1024, 2047}

\* (revision << 28) | (part << 12) | (designer << 1) | reserved
MakeId(revision, part, designer, reserved) ==
    U32(revision * 4096 + part \div 16,
        (part % 16) * 4096 + designer * 2 + reserved)

IdRegs ==
    {MakeId(r, p, d, b) : r \in Revisions, p \in Parts, d \in Designers, b \in {0, 1}}

Decoded(value) ==
    LET info == parse_target_id(value)
    IN  [fields |-> info, protocol |-> ProtocolName(info), check |-> ValidateIdcode(info)]

NotDecoded == [fields |-> <<>>, protocol |-> "", check |-> Ok(<<>>)]

SessionIdle ==
    /\ pid = 14152
    /\ config = <<>>
    /\ device_handle = [s \in Sessions |-> "None"]
    /\ claimed = [s \in Sessions |-> FALSE]
    /\ lifecycle = [s \in Sessions |-> "New"]
    /\ last = NoCall

DiscoveryIdle == devices = <<>> /\ found = NoDiscovery /\ prev = NoDiscovery

InitDecoder ==
    /\ idreg \in IdRegs
    /\ target_info = NotDecoded
    /\ SessionIdle /\ DiscoveryIdle /\ ProbeIdle /\ CliIdle /\ FlushIdle

DecodeStep ==
    /\ target_info = NotDecoded
    /\ target_info' = Decoded(idreg)
    /\ UNCHANGED <<idreg, sessionVars, discoveryVars, probeVars, cliVars, flushVars>>

NextDecoder == DecodeStep

SpecDecoder == InitDecoder /\ [][NextDecoder]_vars

IsDecoded == target_info # NotDecoded

\* C12: a register built as (revision << 28) | (part << 12) | (designer << 1) | 1
\* decodes to (revision, part, designer, 1).
C12_DecodeRoundTrip ==
    IsDecoded =>
        \A r \in Revisions, p \in Parts, d \in Designers :
            idreg = MakeId(r, p, d, 1) => target_info.fields = <<r, p, d, 1>>

C12_Witness ==
    /\ IsDecoded
    /\ idreg = MakeId(15, 65535, 2047, 1)
    /\ target_info.fields = <<15, 65535, 2047, 1>>

\* 0x3BA02477
IdcodeExample == U32(15264, 9335)

\* C13 as stated: 0x3BA02477 decodes to protocol selector 0x4 and is
\* classified as JTAG-DP.
C13_ExampleIsJtag ==
    (IsDecoded /\ idreg = IdcodeExample) =>
        (target_info.fields[1] = 4 /\ target_info.protocol = "JTAG-DP")

\* C13, amended: 0x3BA02477 decodes to protocol selector 0x3 (bits 31:28 of
\* the value) and is classified as SW-DP.
C13_ExampleIsSwd ==
    (IsDecoded /\ idreg = IdcodeExample) =>
        (target_info.fields[1] = 3 /\ target_info.protocol = "SW-DP")

C13_Witness ==
    /\ IsDecoded
    /\ idreg = IdcodeExample
    /\ target_info.fields = <<3, 47618, 571, 1>>

----------------------------------------------------------------------------
(* The CLI operations (src/cli/main.rs): one subcommand per run of the      *)
(* process. The probe's methods are calls into the stlink crate; each may   *)
(* succeed or fail, and a failure returns at once through `?`.              *)

\* the probe calls of show_info_of_device, in program order
ShowInfoScript ==
    << "open", "get_version", "get_target_voltage", "enter_debug",
       "write_dap_register", "read_dap_register", "read_dap_register", "close" >>

\* the probe calls of reset_target_of_device; assert is "None", "true" or "false"
ResetScript(assert) ==
    << "open", IF assert = "None" THEN "target_reset" ELSE "drive_nreset", "close" >>

\* the calls made when call failAt fails (0: none fails): those up to it
CallLog(script, failAt) ==
    [i \in 1..(IF failAt = 0 THEN Len(script) ELSE failAt) |->
        [op |-> script[i], ok |-> i # failAt]]

\* idread: the IDCODE register was read and decoded; idcode is its value
Run(op, n, assert, count, ret, calls, idread, idcode) ==
    [op |-> op, n |-> n, assert |-> assert, count |-> count, ret |-> ret,
     calls |-> calls, idread |-> idread,
     idcode |-> IF idread THEN idcode ELSE U32(0, 0),
     protocol |-> IF idread THEN ProtocolName(parse_target_id(idcode)) ELSE ""]

\* Context::new()?, get_all_plugged_devices()?, the test of len() against n,
\* STLink::new and st_link.open()?: the common prologue, then the script
RunScript(op, n, assert, ctxOk, plugged, script, failAt, idcode, ret) ==
    IF ~ctxOk THEN Run(op, n, assert, 0, Err("USB"), <<>>, FALSE, idcode)
    ELSE IF plugged.status # "Ok" THEN Run(op, n, assert, 0, Err("USB"), <<>>, FALSE, idcode)
    ELSE IF Len(plugged.value) <= n
    THEN Run(op, n, assert, Len(plugged.value), Err("DeviceNotFound"), <<>>, FALSE, idcode)
    ELSE IF failAt # 0
    THEN Run(op, n, assert, Len(plugged.value), Err("STLinkError"),
             CallLog(script, failAt), FALSE, idcode)
    ELSE Run(op, n, assert, Len(plugged.value), ret, CallLog(script, 0), op = "info", idcode)

show_info_of_device(n, ctxOk, plugged, failAt, idcode) ==
    RunScript("info", n, "None", ctxOk, plugged, ShowInfoScript, failAt, idcode,
              ValidateIdcode(parse_target_id(idcode)))

reset_target_of_device(n, assert, ctxOk, plugged, failAt) ==
    RunScript("reset", n, assert, ctxOk, plugged, ResetScript(assert), failAt,
              U32(0, 0), Ok(<<>>))

\* what get_all_plugged_devices can return on the buses of the model
PluggedResults ==
    UNION { { get_all_plugged_devices(d, ok, rd) :
                ok \in BOOLEAN, rd \in Readability(Len(d)) } : d \in DeviceLists }

\* the device numbers given on the command line
DeviceNumbers == 0..MaxDevices

InitCli ==
    /\ cli = [op |-> "none"]
    /\ SessionIdle /\ DiscoveryIdle /\ ProbeIdle /\ DecoderIdle /\ FlushIdle

\* the inputs that the run reaches: no probe call without a selected device,
\* no register value unless both reads succeed
Selected(n, ctxOk, plugged) ==
    ctxOk /\ plugged.status = "Ok" /\ Len(plugged.value) > n

ShowInfoStep ==
    /\ cli.op = "none"
    /\ \E n \in DeviceNumbers, ctxOk \in BOOLEAN, plugged \in PluggedResults :
       \E failAt \in (IF Selected(n, ctxOk, plugged)
                       THEN 0..Len(ShowInfoScript) ELSE {0}) :
       \E idcode \in (IF Selected(n, ctxOk, plugged) /\ failAt = 0
                       THEN IdRegs ELSE {IdcodeExample}) :
          cli' = show_info_of_device(n, ctxOk, plugged, failAt, idcode)
    /\ UNCHANGED <<sessionVars, discoveryVars, probeVars, decoderVars, flushVars>>

ResetTargetStep ==
    /\ cli.op = "none"
    /\ \E n \in DeviceNumbers, assert \in {"None", "true", "false"},
          ctxOk \in BOOLEAN, plugged \in PluggedResults :
       \E failAt \in (IF Selected(n, ctxOk, plugged)
                       THEN 0..Len(ResetScript(assert)) ELSE {0}) :
          cli' = reset_target_of_device(n, assert, ctxOk, plugged, failAt)
    /\ UNCHANGED <<sessionVars, discoveryVars, probeVars, decoderVars, flushVars>>

NextCli == ShowInfoStep \/ ResetTargetStep

SpecCli == InitCli /\ [][NextCli]_vars

HasRun == cli.op # "none"
Called(name) == \E i \in DOMAIN cli.calls : cli.calls[i].op = name
Succeeded(name) == \E i \in DOMAIN cli.calls : cli.calls[i].op = name /\ cli.calls[i].ok
AllCallsOk == \A i \in DOMAIN cli.calls : cli.calls[i].ok

\* the fields of the IDCODE value, read off its bits
ReservedBit(value) == value.lo % 2
Selector(value) == value.hi \div 4096
PartField(value) == (value.hi % 4096) * 16 + value.lo \div 4096

\* C14: show_info_of_device accepts an IDCODE only if its bit 0 is 1, its
\* protocol selector is 0x3 or 0x4 and its part field is 0xBA00 or 0xBA02;
\* every value with bit 0 equal to 0 is rejected, and the rejection is the
\* error Custom, which no failed USB or probe call produces.
C14_ValidationAccepts ==
    HasRun =>
        /\ (cli.op = "info" /\ cli.idread) =>
              /\ cli.ret.status = "Ok" =>
                    /\ ReservedBit(cli.idcode) = 1
                    /\ Selector(cli.idcode) \in {3, 4}
                    /\ PartField(cli.idcode) \in {47616, 47618}
              /\ ReservedBit(cli.idcode) = 0 => cli.ret = Err("Custom")
        /\ cli.ret.err = "Custom" =>
              (cli.op = "info" /\ cli.idread /\ AllCallsOk /\ Called("close"))
        /\ ~AllCallsOk => cli.ret.err = "STLinkError"

C14_Witness ==
    /\ cli.op = "info"
    /\ cli.idread
    /\ cli.idcode = MakeId(3, 47618, 571, 0)
    /\ cli.ret = Err("Custom")

\* C19: every run of show_info_of_device or reset_target_of_device in which
\* open succeeds calls close before it returns, on the success path and on
\* every error path.
C19_OpenedIsClosed ==
    (HasRun /\ Succeeded("open")) => Called("close")

----------------------------------------------------------------------------
(* flush_rx (src/lib/usb_interface.rs): read the response-in endpoint until *)
(* a read reports a timeout.                                                *)

\* the most chunks of stale data the endpoint holds when flush_rx is called
MaxPending == 6

\* pc: "idle" before the call, "loop" inside the loop, "done" after the break;
\* pending: the chunks the endpoint still holds; round: the parity of the
\* iterations made; xfers, status: the transfer and the result of the last read
Flush(pc, pending, round, xfers, status) ==
    [pc |-> pc, pending |-> pending, round |-> round, xfers |-> xfers, status |-> status]

\* what read_bulk can report: a chunk of data (or its loss to a transport
\* error) while the endpoint holds one, a timeout once it holds none
FlushOutcomes(pending) ==
    IF pending > 0
    THEN {BulkOk(n) : n \in BulkLens(DRAIN_SIZE)} \cup {BulkErr("Io")}
    ELSE {BulkErr("Timeout")}

\* if let Err(Error::Timeout) = self.read(..) { break; }
IsTimeout(ret) == ret.status = "Err" /\ ret.err = "Timeout"

\* a session just constructed, or one that open has set up on the advertised
\* layout, with the stale data of an earlier exchange on its endpoint
InitFlush ==
    /\ pid \in ModelPids
    /\ \E h \in {"Some", "None"} :
          /\ device_handle = [s \in Sessions |-> IF s = 1 THEN h ELSE "None"]
          /\ claimed = [s \in Sessions |-> s = 1 /\ h = "Some"]
          /\ lifecycle = [s \in Sessions |-> IF s = 1 /\ h = "Some" THEN "Open" ELSE "New"]
    /\ config = << << <<Info.ep_out, Info.ep_in, Info.ep_swv>> >> >>
    /\ last = NoCall
    /\ flush \in {Flush("idle", p, 0, <<>>, "None") : p \in 0..MaxPending}
    /\ DiscoveryIdle /\ ProbeIdle /\ DecoderIdle /\ CliIdle

\* the call of flush_rx on session 1
FlushRxCall ==
    /\ flush.pc = "idle"
    /\ flush' = [flush EXCEPT !.pc = "loop"]
    /\ UNCHANGED <<sessionVars, discoveryVars, probeVars, decoderVars, cliVars>>

\* one iteration of the loop: self.read(1000, 10ms), then the test of its result
FlushRxStep ==
    /\ flush.pc = "loop"
    /\ \E o \in FlushOutcomes(flush.pending) :
          LET r == Read(device_handle[1], Info, DRAIN_SIZE, o)
              issued == r.xfers # <<>>
          IN  flush' = Flush(IF IsTimeout(r.ret) THEN "done" ELSE "loop",
                             IF issued /\ flush.pending > 0
                             THEN flush.pending - 1 ELSE flush.pending,
                             (flush.round + 1) % 2,
                             r.xfers, r.ret.status)
    /\ UNCHANGED <<sessionVars, discoveryVars, probeVars, decoderVars, cliVars>>

NextFlush == FlushRxCall \/ FlushRxStep

\* the thread that called flush_rx keeps running its loop
SpecFlush == InitFlush /\ [][NextFlush]_vars /\ WF_vars(FlushRxStep)

\* C20: on an open session whose endpoint runs out of data, so that the bulk
\* read times out from then on, a call of flush_rx eventually leaves its loop.
C20_FlushTerminates ==
    (flush.pc = "loop" /\ device_handle[1] = "Some") ~> (flush.pc = "done")

----------------------------------------------------------------------------
(* The debug probe contract (traits DebugProbe and DAPAccess). The traits   *)
(* only declare the operations; the state machine is that of section 4.4 of *)
(* the specification: Closed -> Open -> Attached -> (Open) -> Closed.        *)

Probe(state, protocol) == [state |-> state, protocol |-> protocol]

WireProtocols == {"Swd", "Jtag"}

\* the result of one operation on probe p: an invalid-state error that leaves
\* the probe as it was when the operation is not valid in p's state, else a
\* transport error that leaves it as it was, else success and the next state
Outcome(p, valid, ok, next, value) ==
    IF ~valid THEN [probe |-> p, ret |-> Err("InvalidState")]
    ELSE IF ~ok THEN [probe |-> p, ret |-> Err("Transport")]
    ELSE [probe |-> next, ret |-> Ok(value)]

\* open is the only transition into Open; valid only from Closed
probe_open(p, ok) ==
    Outcome(p, p.state = "Closed", ok, Probe("Open", "None"), <<>>)

\* close is valid from Open or Attached and forces the transition to Closed
probe_close(p, ok) ==
    IF p.state \in {"Open", "Attached"}
    THEN [probe |-> Probe("Closed", "None"),
          ret |-> IF ok THEN Ok(<<>>) ELSE Err("Transport")]
    ELSE [probe |-> p, ret |-> Err("InvalidState")]

\* the version query is a transfer on the session: it needs the session open
get_version(p, ok) ==
    Outcome(p, p.state \in {"Open", "Attached"}, ok, p, <<2, 29>>)

\* attach that also accepts a probe that is already attached.
attach_again(p, protocol, ok) ==
    Outcome(p, p.state \in {"Open", "Attached"}, ok, Probe("Attached", protocol), <<>>)

\* attach transitions Open -> Attached, selecting a wire protocol; invalid if
\* not Open
attach(p, protocol, ok) ==
    Outcome(p, p.state = "Open", ok, Probe("Attached", protocol), <<>>)

\* detach transitions Attached -> Open
detach(p, ok) ==
    Outcome(p, p.state = "Attached", ok, Probe("Open", "None"), <<>>)

\* reset is protocol-agnostic: valid in Open and in Attached
target_reset(p, ok) ==
    Outcome(p, p.state \in {"Open", "Attached"}, ok, p, <<>>)

\* register access is valid only in Attached
read_dap_register(p, port, addr, ok, value) ==
    Outcome(p, p.state = "Attached", ok, p, value)

write_dap_register(p, port, addr, value, ok) ==
    Outcome(p, p.state = "Attached", ok, p, <<>>)

\* the arguments of the register accesses the model makes: the ports and
\* addresses the command-line front end uses, and the values it may read
Ports == {0, 65535}
ReadAddrs == {0, 4}
WriteAddrs == {2}
RegValues == {U32(0, 0), U32(0, 2), IdcodeExample}

ProbeCall(op, before, protocol, port, addr, value, r) ==
    [op |-> op, before |-> before, protocol |-> protocol, port |-> port,
     addr |-> addr, value |-> value, ret |-> r.ret]

InitProbe ==
    /\ probe = Probe("Closed", "None")
    /\ probe_call = [op |-> "none"]
    /\ SessionIdle /\ DiscoveryIdle /\ DecoderIdle /\ CliIdle /\ FlushIdle

\* one call: the probe moves to the state the operation leaves it in
Apply(op, protocol, port, addr, value, r) ==
    /\ probe' = r.probe
    /\ probe_call' = ProbeCall(op, probe, protocol, port, addr, value, r)
    /\ UNCHANGED <<sessionVars, discoveryVars, decoderVars, cliVars, flushVars>>

ProbeOpenStep == \E ok \in BOOLEAN : Apply("open", "None", 0, 0, U32(0, 0), probe_open(probe, ok))

ProbeCloseStep == \E ok \in BOOLEAN : Apply("close", "None", 0, 0, U32(0, 0), probe_close(probe, ok))

GetVersionStep == \E ok \in BOOLEAN : Apply("get_version", "None", 0, 0, U32(0, 0), get_version(probe, ok))

AttachStep ==
    \E protocol \in WireProtocols, ok \in BOOLEAN :
        Apply("attach", protocol, 0, 0, U32(0, 0), attach(probe, protocol, ok))

DetachStep == \E ok \in BOOLEAN : Apply("detach", "None", 0, 0, U32(0, 0), detach(probe, ok))

TargetResetStep ==
    \E ok \in BOOLEAN : Apply("target_reset", "None", 0, 0, U32(0, 0), target_reset(probe, ok))

ReadDapRegisterStep ==
    \E port \in Ports, addr \in ReadAddrs, ok \in BOOLEAN, value \in RegValues :
        Apply("read_dap_register", "None", port, addr, U32(0, 0),
              read_dap_register(probe, port, addr, ok, value))

WriteDapRegisterStep ==
    \E port \in Ports, addr \in WriteAddrs, ok \in BOOLEAN, value \in RegValues :
        Apply("write_dap_register", "None", port, addr, value,
              write_dap_register(probe, port, addr, value, ok))

NextProbe ==
    \/ ProbeOpenStep
    \/ ProbeCloseStep
    \/ GetVersionStep
    \/ AttachStep
    \/ DetachStep
    \/ TargetResetStep
    \/ ReadDapRegisterStep
    \/ WriteDapRegisterStep

SpecProbe == InitProbe /\ [][NextProbe]_vars

ProbeCalled(op) == probe_call.op = op

\* C11: a DAP register read on a probe that is not Attached, and an attach on
\* a probe that is already Attached, fail with the invalid-state error and
\* leave the state of the probe as it was.
C11_InvalidStateRejected ==
    /\ (ProbeCalled("read_dap_register") /\ probe_call.before.state # "Attached") =>
          (probe_call.ret = Err("InvalidState") /\ probe = probe_call.before)
    /\ (ProbeCalled("attach") /\ probe_call.before.state = "Attached") =>
          (probe_call.ret = Err("InvalidState") /\ probe = probe_call.before)

C11_Witness ==
    /\ ProbeCalled("attach")
    /\ probe_call.before = Probe("Attached", "Swd")
    /\ probe_call.protocol = "Jtag"
    /\ probe_call.ret = Err("InvalidState")
    /\ probe = Probe("Attached", "Swd")

====
